---- MODULE Spec2Model ----
(***************************************************************************)
(* A model of altair_pandas: the layout solver (_get_layout), the Series   *)
(* and DataFrame normalizers (_preprocess_data) and the plot dispatcher    *)
(* (plot) with the plot kinds of _SeriesPlotter and _DataFramePlotter.     *)
(***************************************************************************)
EXTENDS Integers, Sequences, FiniteSets, TLC

VARIABLES
    panels,     \* _get_layout: the panel count of the last call
    layout,     \* _get_layout: the layout argument of the last call
    lret,       \* _get_layout: the outcome of the last call
    caller,     \* the caller's Series / DataFrame object, as it is now
    snapshot,   \* the caller's object as it was constructed
    ncall,      \* _preprocess_data: the arguments of the last call
    work,       \* _preprocess_data: the outcome of the last call
    byobj,      \* the caller's list object passed as by, as it is now
    bysnap,     \* the caller's list object as it was constructed
    hashseed,   \* the process's str hashing (decides the order of a set)
    pc,         \* plot: "idle", or "done" when a call has just ended
    pcall,      \* plot: the kind and options of the call that ended
    out         \* plot: the outcome of the call that ended

lvars == <<panels, layout, lret>>
nvars == <<caller, snapshot, ncall, work>>
pvars == <<byobj, bysnap, hashseed, pc, pcall, out>>
vars == <<panels, layout, lret, caller, snapshot, ncall, work,
          byobj, bysnap, hashseed, pc, pcall, out>>

(***************************************************************************)
(* Bounds of the layout solver's inputs.                                   *)
(***************************************************************************)
MaxPanels == 6
MaxDim == 3
MaxNeg == 2

PanelCounts == 0..MaxPanels
Dims == (-MaxNeg)..MaxDim

\* The layout argument: None (not given) or a tuple of ints.  Tuples of
\* length 0, 1 and 3 stand for the tuples that do not have two elements.
NoLayout == [given |-> FALSE, v |-> <<>>]
Given(t) == [given |-> TRUE, v |-> t]
LayoutArgs ==
    {NoLayout}
    \cup {Given(<<>>)}
    \cup {Given(<<a>>) : a \in Dims}
    \cup {Given(<<a, b>>) : a \in Dims, b \in Dims}
    \cup {Given(<<a, b, b>>) : a \in Dims, b \in Dims}

(***************************************************************************)
(* Outcomes of _get_layout: a returned (rows, cols), or a raised error.    *)
(***************************************************************************)
LNone == [status |-> "none", rows |-> 0, cols |-> 0, msg |-> ""]
LReturn(t) == [status |-> "return", rows |-> t[1], cols |-> t[2], msg |-> ""]
LRaise(e, m) == [status |-> e, rows |-> 0, cols |-> 0, msg |-> m]

LayoutIdle ==
    /\ panels = 0
    /\ layout = NoLayout
    /\ lret = LNone

\* int(np.ceil(a / b)) for b > 0 (a / b is Python's true division).
CeilDivFloor(a, b) == a \div b
CeilDiv(a, b) == IF a % b = 0 THEN a \div b ELSE (a \div b) + 1

\* panels / d raises ZeroDivisionError when d = 0.
InferDim(p, d) ==
    IF d = 0 THEN [ok |-> FALSE, v |-> 0] ELSE [ok |-> TRUE, v |-> CeilDiv(p, d)]

\* The final capacity test of _get_layout.
CapacityCheckNone(p, l) == LReturn(l)
CapacityCheck(p, l) ==
    IF p > l[1] * l[2]
    THEN LRaise("ValueError", "layout must be larger than panels")
    ELSE LReturn(l)

_get_layout(p, lay) ==
    LET l0 == IF ~lay.given THEN <<-1, 2>> ELSE lay.v
    IN  IF Len(l0) # 2
        THEN LRaise("ValueError", "layout should have two elements")
        ELSE IF l0[1] < 0 /\ l0[2] < 0
        THEN LRaise("ValueError", "At least one dimension of layout must be positive")
        ELSE IF l0[1] < 0 /\ ~InferDim(p, l0[2]).ok
        THEN LRaise("ZeroDivisionError", "division by zero")
        ELSE LET l1 == IF l0[1] < 0 THEN <<InferDim(p, l0[2]).v, l0[2]>> ELSE l0
             IN  IF l1[2] < 0 /\ ~InferDim(p, l1[1]).ok
                 THEN LRaise("ZeroDivisionError", "division by zero")
                 ELSE LET l2 == IF l1[2] < 0
                                THEN <<l1[1], InferDim(p, l1[1]).v>>
                                ELSE l1
                      IN  CapacityCheck(p, l2)

(***************************************************************************)
(* Labels and cell values.  A label (a column label, a Series name, an     *)
(* index name) is None, an int or a str.  A cell value (a cell of a        *)
(* column, a level value of an index) is an int or a str, a str being the  *)
(* sequence of its characters.                                             *)
(***************************************************************************)
N == [t |-> "none", n |-> 0, s |-> ""]
I(n) == [t |-> "int", n |-> n, s |-> ""]
S(s) == [t |-> "str", n |-> 0, s |-> s]

VI(n) == [t |-> "int", n |-> n, s |-> <<>>]
VS(cs) == [t |-> "str", n |-> 0, s |-> cs]

Digit(d) ==
    CASE d = 0 -> "0" [] d = 1 -> "1" [] d = 2 -> "2" [] d = 3 -> "3"
      [] d = 4 -> "4" [] d = 5 -> "5" [] d = 6 -> "6" [] d = 7 -> "7"
      [] d = 8 -> "8" [] d = 9 -> "9"

\* The characters of str(n) for an int n.
RECURSIVE IntChars(_)
IntChars(n) ==
    IF n < 0 THEN <<"-">> \o IntChars(-n)
    ELSE IF n < 10 THEN <<Digit(n)>>
    ELSE IntChars(n \div 10) \o <<Digit(n % 10)>>

\* The str whose characters are cs.
RECURSIVE Concat(_)
Concat(cs) == IF cs = <<>> THEN "" ELSE Head(cs) \o Concat(Tail(cs))

\* str(column_name)
_valid_column(column_name) ==
    CASE column_name.t = "str" -> column_name
      [] column_name.t = "int" -> S(Concat(IntChars(column_name.n)))
      [] column_name.t = "none" -> S("None")

HasChar(cs, ch) == \E i \in 1..Len(cs) : cs[i] = ch

RECURSIVE Escaped(_)
Escaped(cs) ==
    IF cs = <<>> THEN <<>>
    ELSE (IF Head(cs) \in {"'", "\\"} THEN <<"\\", Head(cs)>> ELSE <<Head(cs)>>)
         \o Escaped(Tail(cs))

\* repr() of a str: in double quotes when it holds ' and no ", else in
\* single quotes with ' and \ escaped.
StrReprBare(cs) == cs
StrRepr(cs) ==
    IF HasChar(cs, "'") /\ ~HasChar(cs, "\"")
    THEN <<"\"">> \o cs \o <<"\"">>
    ELSE <<"'">> \o Escaped(cs) \o <<"'">>

\* repr() of a level value.
ValueRepr(v) == IF v.t = "int" THEN IntChars(v.n) ELSE StrRepr(v.s)

RECURSIVE JoinReprs(_)
JoinReprs(tup) ==
    IF Len(tup) = 0 THEN <<>>
    ELSE IF Len(tup) = 1 THEN ValueRepr(tup[1])
    ELSE ValueRepr(tup[1]) \o <<",", " ">> \o JoinReprs(Tail(tup))

\* str(i) for a tuple i of a MultiIndex.
TupleStr(tup) ==
    IF Len(tup) = 1 THEN <<"(">> \o ValueRepr(tup[1]) \o <<",", ")">>
    ELSE <<"(">> \o JoinReprs(tup) \o <<")">>

(***************************************************************************)
(* Series and DataFrames.  cols are the column labels (for a Series: its   *)
(* name), cells[j] the cells of column j, keys[i] the index key of row i   *)
(* (a tuple of level values: one for a flat index), iname the index name   *)
(* and multi whether the index is a MultiIndex.                            *)
(***************************************************************************)
Table(type, cols, cells, iname, multi, keys) ==
    [type |-> type, cols |-> cols, cells |-> cells,
     iname |-> iname, multi |-> multi, keys |-> keys]

NoTable == Table("none", <<>>, <<>>, N, FALSE, <<>>)

NRows(d) == Len(d.keys)
RangeKeys(n) == [i \in 1..n |-> <<VI(i - 1)>>]

\* A reference to a table: own is FALSE when the object is the caller's.
Ref(obj, own) == [obj |-> obj, own |-> own]

Stringified(d) == [d EXCEPT !.cols = [j \in 1..Len(d.cols) |-> _valid_column(d.cols[j])]]

\* pandas: data.rename(columns=_valid_column) returns a new DataFrame.
RenameColumnsInPlace(d) == Ref(Stringified(d), FALSE)
RenameColumns(d) == Ref(Stringified(d), TRUE)

\* pandas: Series.copy() returns a new Series.
Copy(d) == Ref(d, TRUE)

\* pandas: Series.to_frame() names the column 0 when the Series has no name.
ToFrame(d) ==
    [d EXCEPT !.type = "DataFrame",
              !.cols = <<IF d.cols[1] = N THEN I(0) ELSE d.cols[1]>>]

RECURSIVE Positions(_, _, _)
\* The positions, in order, of the columns of d labelled lab, from j on.
Positions(d, lab, j) ==
    IF j > Len(d.cols) THEN <<>>
    ELSE (IF d.cols[j] = lab THEN <<j>> ELSE <<>>) \o Positions(d, lab, j + 1)

RECURSIVE SelectPositions(_, _)
SelectPositions(d, usecols) ==
    IF usecols = <<>> THEN <<>>
    ELSE Positions(d, Head(usecols), 1) \o SelectPositions(d, Tail(usecols))

\* The table of the columns of d at the positions pos, in that order.
TakeColumns(d, pos) ==
    [d EXCEPT !.cols = [k \in 1..Len(pos) |-> d.cols[pos[k]]],
              !.cells = [k \in 1..Len(pos) |-> d.cells[pos[k]]]]

HasColumn(d, lab) == \E j \in 1..Len(d.cols) : d.cols[j] = lab

\* pandas: data[usecols] for a list of labels: a new DataFrame of the columns
\* with these labels, in the order of the list; KeyError for a label that is
\* not a column.
Select(d, usecols) ==
    IF \E k \in 1..Len(usecols) : ~HasColumn(d, usecols[k])
    THEN [err |-> "KeyError", data |-> NoTable]
    ELSE [err |-> "", data |-> TakeColumns(d, SelectPositions(d, usecols))]

\* pd.Index([str(i) for i in data.index], name=data.index.name)
FlatIndex(d) ==
    [d EXCEPT !.multi = FALSE,
              !.keys = [i \in 1..Len(d.keys) |-> <<VS(TupleStr(d.keys[i]))>>]]

NLevels(d) == IF d.keys = <<>> THEN 1 ELSE Len(d.keys[1])

\* The labels reset_index gives the inserted columns: the index name, or by
\* default "index" ("level_0" when "index" is a column already); "level_k"
\* for the levels of a MultiIndex.
IndexLabels(d) ==
    IF d.multi
    THEN [k \in 1..NLevels(d) |-> S("level_" \o Concat(IntChars(k - 1)))]
    ELSE IF d.iname # N THEN <<d.iname>>
    ELSE IF HasColumn(d, S("index")) THEN <<S("level_0")>>
    ELSE <<S("index")>>

\* pandas: DataFrame.reset_index() returns a new DataFrame with the index as
\* its first column(s) and a range index; ValueError ("cannot insert ...,
\* already exists") when an index label is a column already.
InsertIndex(d, labs) ==
    IF \E k \in 1..Len(labs) : HasColumn(d, labs[k])
    THEN [err |-> "ValueError", data |-> NoTable]
    ELSE [err |-> "",
          data |-> Table("DataFrame",
                         labs \o d.cols,
                         [k \in 1..Len(labs) |-> [i \in 1..NRows(d) |-> d.keys[i][k]]]
                             \o d.cells,
                         N, FALSE, RangeKeys(NRows(d)))]
ResetIndex(d) == InsertIndex(d, IndexLabels(d))

(***************************************************************************)
(* The normalizers.  Each returns err ("" when it returns), the working    *)
(* table data, whether data is an object of its own, and the caller's      *)
(* object as the call leaves it.                                           *)
(***************************************************************************)
Norm(err, data, own, orig) == [err |-> err, data |-> data, own |-> own, caller |-> orig]

\* data.index = pd.Index([str(i) for i in data.index], name=data.index.name)
\* assigns to the object data refers to.
AssignFlatIndex(ref, orig) ==
    [ref |-> Ref(FlatIndex(ref.obj), ref.own),
     caller |-> IF ref.own THEN orig ELSE FlatIndex(orig)]

\* _SeriesPlotter._preprocess_data
SeriesPreprocessToFrame(self_data, with_index) ==
    Norm("", RenameColumns(ToFrame(self_data)).obj, TRUE, self_data)
\* data = data.reset_index(); return data.rename(columns=_valid_column)
SeriesRenamed(r, orig) ==
    IF r.err # "" THEN Norm(r.err, NoTable, TRUE, orig)
    ELSE Norm("", RenameColumns(r.data).obj, TRUE, orig)
SeriesReset(a) == SeriesRenamed(ResetIndex(ToFrame(a.ref.obj)), a.caller)
SeriesPreprocess(self_data, with_index) ==
    IF with_index
    THEN SeriesReset(IF self_data.multi
                     THEN AssignFlatIndex(Copy(self_data), self_data)
                     ELSE [ref |-> Ref(self_data, FALSE), caller |-> self_data])
    ELSE Norm("", RenameColumns(ToFrame(self_data)).obj, TRUE, self_data)

\* _DataFramePlotter._preprocess_data; usecols is None (not given) or a list
\* of labels.
NoCols == [given |-> FALSE, v |-> <<>>]
Cols(v) == [given |-> TRUE, v |-> v]

\* return data.reset_index()
FrameReset(r, orig) == Norm(r.err, r.data, TRUE, orig)
\* if isinstance(data.index, pd.MultiIndex): data.index = pd.Index(...)
FrameFlattened(a) == FrameReset(ResetIndex(a.ref.obj), a.caller)
FrameIndexed(ref, orig, with_index) ==
    IF with_index
    THEN FrameFlattened(IF ref.obj.multi
                        THEN AssignFlatIndex(ref, orig)
                        ELSE [ref |-> ref, caller |-> orig])
    ELSE Norm("", ref.obj, ref.own, orig)
\* if usecols is not None: data = data[usecols]
FrameSelected(sel, own, orig, with_index) ==
    IF sel.err # "" THEN Norm(sel.err, NoTable, TRUE, orig)
    ELSE FrameIndexed(Ref(sel.data, own), orig, with_index)
FrameRenamed(renamed, self_data, with_index, usecols) ==
    FrameSelected(IF usecols.given THEN Select(renamed.obj, usecols.v)
                  ELSE [err |-> "", data |-> renamed.obj],
                  renamed.own \/ usecols.given,
                  IF renamed.own THEN self_data ELSE renamed.obj,
                  with_index)
FramePreprocess(self_data, with_index, usecols) ==
    FrameRenamed(RenameColumns(self_data), self_data, with_index, usecols)

(***************************************************************************)
(* Keyword options of a plot call.  U marks an option that is not passed;  *)
(* N is None.  by is not passed, a str, or the caller's list object, whose *)
(* content is the variable byobj.                                          *)
(***************************************************************************)
U == [t |-> "unset", n |-> 0, s |-> ""]

NoLayoutOpt == [set |-> FALSE, arg |-> NoLayout]
LayoutOpt(arg) == [set |-> TRUE, arg |-> arg]

NoOpts ==
    [x |-> U, y |-> U, c |-> U, s |-> U, C |-> U, by |-> U, bylist |-> FALSE,
     column |-> NoCols, vert |-> TRUE, orientation |-> "vertical",
     subplots |-> FALSE, layout |-> NoLayoutOpt, color |-> U,
     stacked |-> U, bins |-> U, bw_method |-> U, ind |-> U,
     alpha |-> U, tooltip |-> <<>>, colormap |-> U]

\* The bool b as an option value.
B(b) == [t |-> "bool", n |-> IF b THEN 1 ELSE 0, s |-> ""]

\* kwargs.get(name): None for an option that is not passed.
Get(v) == IF v = U THEN N ELSE v

(***************************************************************************)
(* Charts: the mark, the encoding channels (a field label, U when the      *)
(* channel is not encoded), the fold transform, the tooltip, the facet and *)
(* columns directives, and the chart's data.                               *)
(***************************************************************************)
NoChart ==
    [mark |-> "", orient |-> "", markcolor |-> U,
     x |-> U, y |-> U, color |-> U, size |-> U,
     xbin |-> FALSE, ybin |-> FALSE,
     fold |-> <<>>, foldas |-> <<>>, tooltip |-> <<>>, repeat |-> <<>>,
     facet |-> U, columns |-> 0, title |-> <<>>, data |-> NoTable,
     stack |-> U, line |-> FALSE, maxbins |-> U,
     bandwidth |-> [num |-> 0, den |-> 0, root |-> 0], steps |-> U,
     repeatcol |-> <<>>, colorvalue |-> U, scheme |-> U, opacity |-> U]

\* _PandasPlotter._get_mark_def: a str color option becomes the mark's color.
_get_mark_def(chart, opts) ==
    IF opts.color.t = "str" THEN [chart EXCEPT !.markcolor = opts.color] ELSE chart

\* chart.encoding.x, chart.encoding.y = chart.encoding.y, chart.encoding.x
SwapXY(chart) ==
    [chart EXCEPT !.x = chart.y, !.y = chart.x, !.xbin = chart.ybin, !.ybin = chart.xbin]

(***************************************************************************)
(* The outcome of a call: status is "chart" when a chart is returned,      *)
(* "value" when something else is returned, else the exception raised;     *)
(* invoked is the attribute of the plotter that was called ("" when none   *)
(* was); caller and byobj are the caller's objects as the call leaves      *)
(* them.                                                                   *)
(***************************************************************************)
Out(status, msg, chart, orig, by) ==
    [status |-> status, msg |-> msg, chart |-> chart, caller |-> orig, byobj |-> by,
     warnings |-> <<>>, calls |-> <<>>]

Raise(e, msg, orig, by) == Out(e, msg, NoChart, orig, by)

(***************************************************************************)
(* _SeriesPlotter                                                          *)
(***************************************************************************)
\* _SeriesPlotter._xy
Series_xy_chart(pre, mark, orient, opts, by) ==
    IF pre.err # "" THEN Raise(pre.err, "reset_index", pre.caller, by)
    ELSE Out("chart", "",
             _get_mark_def([NoChart EXCEPT !.mark = mark, !.orient = orient,
                                           !.x = pre.data.cols[1], !.y = pre.data.cols[2],
                                           !.tooltip = pre.data.cols, !.data = pre.data],
                           opts),
             pre.caller, by)
Series_xy(self_data, mark, orient, opts, by) ==
    Series_xy_chart(SeriesPreprocess(self_data, TRUE), mark, orient, opts, by)

\* chart.encoding.x, chart.encoding.y = chart.encoding.y, chart.encoding.x
\* on the chart a call returned.
Unswapped(r) == r
Swapped(r) == IF r.status = "chart" THEN [r EXCEPT !.chart = SwapXY(r.chart)] ELSE r

Series_line(self_data, opts, by) == Series_xy(self_data, "line", "", opts, by)
Series_bar(self_data, opts, by) == Series_xy(self_data, "bar", "vertical", opts, by)
Series_barh(self_data, opts, by) ==
    Swapped(Series_xy(self_data, "bar", "horizontal", opts, by))
Series_area(self_data, opts, by) == Series_xy(self_data, "area", "", opts, by)

\* _SeriesPlotter.scatter
Series_scatter_chart(self_data, opts, by) ==
    Out("chart", "", [NoChart EXCEPT !.mark = "point", !.x = Get(opts.x), !.y = Get(opts.y)],
        self_data, by)
Series_scatter(self_data, opts, by) ==
    Raise("ValueError", "kind='scatter' can only be used for DataFrames.", self_data, by)

\* _SeriesPlotter.hist
\* bins: alt.Bin(maxbins=bins) for an int, True (no maxbins) for None.
HistBaseAuto(data, opts) ==
    [NoChart EXCEPT !.mark = "bar", !.orient = opts.orientation, !.data = data]
HistBase(data, opts) ==
    [NoChart EXCEPT !.mark = "bar", !.orient = opts.orientation, !.data = data,
                    !.maxbins = IF Get(opts.bins) = N THEN U ELSE opts.bins]
Series_hist_chart(pre, base, opts, by) ==
    IF opts.orientation = "vertical"
    THEN Out("chart", "",
             _get_mark_def([base EXCEPT !.x = pre.data.cols[1], !.xbin = TRUE,
                                        !.y = S("count()")], opts),
             pre.caller, by)
    ELSE IF opts.orientation = "horizontal"
    THEN Out("chart", "",
             _get_mark_def([base EXCEPT !.y = pre.data.cols[1], !.ybin = TRUE,
                                        !.x = S("count()")], opts),
             pre.caller, by)
    ELSE Raise("ValueError", "orientation must be 'horizontal' or 'vertical'.",
               pre.caller, by)
Series_hist_data(pre, opts, by) == Series_hist_chart(pre, HistBase(pre.data, opts), opts, by)
Series_hist(self_data, opts, by) ==
    Series_hist_data(SeriesPreprocess(self_data, FALSE), opts, by)

\* _SeriesPlotter.hist_series
Series_hist_series(self_data, opts, by) == Series_hist(self_data, opts, by)

\* _SeriesPlotter.box
Series_box_chart(data) ==
    [NoChart EXCEPT !.mark = "boxplot", !.fold = data.cols,
                    !.foldas = <<"column", "value">>,
                    !.x = S("column"), !.y = S("value"), !.data = data]
Series_box_vert(chart, opts, orig, by) ==
    Out("chart", "", IF opts.vert THEN chart ELSE SwapXY(chart), orig, by)
Series_box_data(pre, opts, by) ==
    Series_box_vert(Series_box_chart(pre.data), opts, pre.caller, by)
Series_box(self_data, opts, by) ==
    Series_box_data(SeriesPreprocess(self_data, FALSE), opts, by)

\* _SeriesPlotter.kde and _PandasPlotter._kde
_kde_color(chart, data) ==
    IF 1 < Len(data.cols) THEN [chart EXCEPT !.color = S("Column")] ELSE chart
\* The bandwidth _kde resolves, as the number (num / den) ** (1 / root):
\* a float bw_method is given in tenths, a callable bw_method is either a
\* constant function (s = "const", returning n tenths) or the function that
\* returns a tenth of the number of columns of the table it is called on.
_kde_bandwidth_cols(data, bw_method) ==
    IF bw_method = S("scott") \/ Get(bw_method) = N
    THEN [num |-> 0, den |-> 1, root |-> 1]
    ELSE IF bw_method = S("silverman")
    THEN LET n == Len(data.cols)
             d == 1
         IN  [num |-> 4, den |-> n * (d + 2), root |-> d + 4]
    ELSE IF bw_method.t = "callable"
    THEN [num |-> IF bw_method.s = "const" THEN bw_method.n ELSE Len(data.cols),
          den |-> 10, root |-> 1]
    ELSE [num |-> bw_method.n, den |-> 10, root |-> 1]
_kde_bandwidth(data, bw_method) ==
    IF bw_method = S("scott") \/ Get(bw_method) = N
    THEN [num |-> 0, den |-> 1, root |-> 1]
    ELSE IF bw_method = S("silverman")
    THEN LET n == NRows(data)
             d == 1
         IN  [num |-> 4, den |-> n * (d + 2), root |-> d + 4]
    ELSE IF bw_method.t = "callable"
    THEN [num |-> IF bw_method.s = "const" THEN bw_method.n ELSE Len(data.cols),
          den |-> 10, root |-> 1]
    ELSE [num |-> bw_method.n, den |-> 10, root |-> 1]

\* The steps _kde resolves from ind (an int, an ndarray, or something else).
_kde_steps(ind) ==
    IF Get(ind) = N THEN I(1000)
    ELSE IF ind.t = "ndarray" THEN I(1000)
    ELSE ind

\* The warnings _kde emits and the calls of bw_method it makes, in order.
_kde_effects(r, data, opts) ==
    [r EXCEPT !.warnings =
                  (IF opts.bw_method.t = "callable" /\ 1 < Len(data.cols)
                   THEN <<"UserWarning: sets the bandwidth for all columns">> ELSE <<>>)
                  \o (IF opts.ind.t = "ndarray"
                      THEN <<"UserWarning: does not support sequences for ind">> ELSE <<>>),
              !.calls = IF opts.bw_method.t = "callable" THEN <<data>> ELSE <<>>]

_kde(data, opts) ==
    _kde_color(_get_mark_def([NoChart EXCEPT !.mark = "area", !.fold = data.cols,
                                             !.bandwidth = _kde_bandwidth(data, opts.bw_method),
                                             !.steps = _kde_steps(opts.ind),
                                             !.foldas = <<"Column", "value">>,
                                             !.x = S("value"), !.y = S("density"),
                                             !.stack = S("zero"),
                                             !.tooltip = <<S("value"), S("density"), S("Column")>>,
                                             !.data = data], opts),
               data)

kde_data(pre, opts, by) ==
    _kde_effects(Out("chart", "", _kde(pre.data, opts), pre.caller, by), pre.data, opts)
Series_kde(self_data, opts, by) == kde_data(SeriesPreprocess(self_data, FALSE), opts, by)

(***************************************************************************)
(* _DataFramePlotter                                                       *)
(***************************************************************************)
\* The layout a kind passes to _get_layout: the layout option when it is
\* passed, else the kind's default.
LayoutOr(opts, default) == IF opts.layout.set THEN opts.layout.arg ELSE default

\* chart.encode(facet=alt.Facet("column:N")).properties(columns=ncols) for
\* panels panels, or the error of _get_layout.
FacetedBy(l, chart, field, orig, by) ==
    IF l.status # "return" THEN Raise(l.status, l.msg, orig, by)
    ELSE Out("chart", "", [chart EXCEPT !.facet = field, !.columns = l.cols], orig, by)
Faceted(chart, n, lay, field, orig, by) ==
    FacetedBy(_get_layout(n, lay), chart, field, orig, by)

\* _DataFramePlotter._xy
\* The stacked parameter of a kind: the option when it is passed, else the
\* parameter's default.
StackedPassed(opts, default) == opts.stacked
Stacked(opts, default) == IF opts.stacked = U THEN default ELSE opts.stacked

Frame_xy_chart(pre, x, y_values, mark, orient, stacked, opts) ==
    _get_mark_def([NoChart EXCEPT !.mark = mark, !.orient = orient,
                                  !.stack = stacked,
                                  !.fold = y_values,
                                  !.foldas = <<"column", "value">>,
                                  !.x = x, !.y = S("value"),
                                  !.color = S("column"),
                                  !.tooltip = <<x>> \o y_values,
                                  !.data = pre.data], opts)
Frame_xy_subplots_default(pre, chart, y_values, opts, by) ==
    IF opts.subplots
    THEN Faceted(chart, Len(y_values), Given(<<-1, 1>>), S("column"), pre.caller, by)
    ELSE Out("chart", "", chart, pre.caller, by)
Frame_xy_subplots(pre, chart, y_values, opts, by) ==
    IF opts.subplots
    THEN Faceted(chart, Len(y_values), LayoutOr(opts, Given(<<-1, 1>>)),
                 S("column"), pre.caller, by)
    ELSE Out("chart", "", chart, pre.caller, by)
Frame_xy_fields(pre, x, y, y_values, mark, orient, stacked, opts, by) ==
    IF Get(opts.x) # N /\ ~HasColumn(pre.data, x)
    THEN Raise("AssertionError", "x in data.columns", pre.caller, by)
    ELSE IF Get(opts.y) # N /\ ~HasColumn(pre.data, y)
    THEN Raise("AssertionError", "y in data.columns", pre.caller, by)
    ELSE Frame_xy_subplots(pre, Frame_xy_chart(pre, x, y_values, mark, orient, stacked, opts),
                           y_values, opts, by)
Frame_xy_data(pre, mark, orient, stacked, opts, by) ==
    IF pre.err # "" THEN Raise(pre.err, "reset_index", pre.caller, by)
    ELSE Frame_xy_fields(pre,
                         IF Get(opts.x) = N THEN pre.data.cols[1] ELSE _valid_column(opts.x),
                         _valid_column(opts.y),
                         IF Get(opts.y) = N THEN Tail(pre.data.cols)
                         ELSE <<_valid_column(opts.y)>>,
                         mark, orient, stacked, opts, by)
Frame_xy(self_data, mark, orient, stacked, opts, by) ==
    Frame_xy_data(FramePreprocess(self_data, TRUE, NoCols), mark, orient, stacked, opts, by)

Frame_line(self_data, opts, by) ==
    Frame_xy(self_data, "line", "", Stacked(opts, B(FALSE)), opts, by)
\* mark = "area" if stacked else {"type": "area", "line": True, "opacity": 0.5}
AreaMark(r, stacked) ==
    IF r.status = "chart" /\ stacked # B(TRUE) THEN [r EXCEPT !.chart.line = TRUE] ELSE r
Frame_area(self_data, opts, by) ==
    AreaMark(Frame_xy(self_data, "area", "", Stacked(opts, B(TRUE)), opts, by),
             Stacked(opts, B(TRUE)))
Frame_bar_small(self_data, opts, by) ==
    LET r == Frame_xy(self_data, "bar", "vertical", Stacked(opts, B(FALSE)), opts, by)
    IN  IF r.status = "chart" /\ NRows(self_data) <= 12
        THEN [r EXCEPT !.chart.facet = r.chart.x]
        ELSE r
Frame_bar(self_data, opts, by) ==
    Frame_xy(self_data, "bar", "vertical", Stacked(opts, B(FALSE)), opts, by)
Frame_barh(self_data, opts, by) ==
    Swapped(Frame_xy(self_data, "bar", "horizontal", Stacked(opts, B(FALSE)), opts, by))

RECURSIVE Dedup(_)
\* The distinct elements of a sequence, in the order of their first occurrence.
Dedup(q) ==
    IF q = <<>> THEN <<>>
    ELSE <<Head(q)>> \o Dedup(SelectSeq(Tail(q), LAMBDA e : e # Head(q)))

Reversed(q) == [k \in 1..Len(q) |-> q[Len(q) + 1 - k]]

\* list(set(q)): the distinct elements in an order the process's str hashing
\* decides; seed picks between two of the orders.
ListOfSet(q, seed) == IF seed THEN Dedup(q) ELSE Reversed(Dedup(q))

\* _DataFramePlotter.scatter
\* The encodings of a scatter chart: x, y, and color and size when passed.
ScatterEncodings(opts) ==
    <<_valid_column(opts.x), _valid_column(opts.y)>>
        \o (IF Get(opts.c) # N THEN <<_valid_column(opts.c)>> ELSE <<>>)
        \o (IF Get(opts.s) # N THEN <<_valid_column(opts.s)>> ELSE <<>>)
Frame_scatter_data(pre, columns, opts, by) ==
    IF pre.err # "" THEN Raise(pre.err, "data[usecols]", pre.caller, by)
    ELSE Out("chart", "",
             _get_mark_def([NoChart EXCEPT
                               !.mark = "point",
                               !.x = _valid_column(opts.x), !.y = _valid_column(opts.y),
                               !.color = IF Get(opts.c) # N THEN _valid_column(opts.c) ELSE U,
                               !.size = IF Get(opts.s) # N THEN _valid_column(opts.s) ELSE U,
                               !.tooltip = columns, !.data = pre.data], opts),
             pre.caller, by)
Frame_scatter_columns(self_data, columns, opts, by) ==
    Frame_scatter_data(FramePreprocess(self_data, FALSE, Cols(columns)), columns, opts, by)
Frame_scatter(self_data, opts, by, seed) ==
    IF opts.x = U \/ opts.y = U
    THEN Raise("TypeError", "scatter() missing required positional argument",
               self_data, by)
    ELSE IF opts.x = N \/ opts.y = N
    THEN Raise("ValueError", "kind='scatter' requires 'x' and 'y' arguments.",
               self_data, by)
    ELSE Frame_scatter_columns(self_data, ListOfSet(ScatterEncodings(opts), seed), opts, by)

\* _DataFramePlotter.hist
Frame_hist_base(data, opts) ==
    [NoChart EXCEPT !.mark = "bar", !.orient = opts.orientation,
                    !.stack = Stacked(opts, N),
                    !.maxbins = IF Get(opts.bins) = N THEN U ELSE opts.bins,
                    !.fold = data.cols, !.foldas = <<"column", "value">>,
                    !.color = S("column"), !.data = data]
Frame_hist_chart(base, opts) ==
    _get_mark_def(
        IF opts.orientation = "vertical"
        THEN [base EXCEPT !.x = S("value"), !.xbin = TRUE, !.y = S("count()")]
        ELSE [base EXCEPT !.y = S("value"), !.ybin = TRUE, !.x = S("count()")],
        opts)
Frame_hist_subplots(pre, chart, opts, by) ==
    IF opts.subplots
    THEN Faceted(chart, Len(pre.data.cols), LayoutOr(opts, Given(<<-1, 1>>)),
                 S("column"), pre.caller, by)
    ELSE Out("chart", "", chart, pre.caller, by)
Frame_hist_data(pre, opts, by) ==
    IF opts.orientation \notin {"vertical", "horizontal"}
    THEN Raise("ValueError", "orientation must be 'horizontal' or 'vertical'.",
               pre.caller, by)
    ELSE Frame_hist_subplots(pre, Frame_hist_chart(Frame_hist_base(pre.data, opts), opts),
                             opts, by)
Frame_hist(self_data, opts, by) ==
    Frame_hist_data(FramePreprocess(self_data, FALSE, NoCols), opts, by)

IsNumeric(d, j) == \A i \in 1..Len(d.cells[j]) : d.cells[j][i].t = "int"
RECURSIVE NumericPositions(_, _)
NumericPositions(d, j) ==
    IF j > Len(d.cols) THEN <<>>
    ELSE (IF IsNumeric(d, j) THEN <<j>> ELSE <<>>) \o NumericPositions(d, j + 1)

\* pandas: data._get_numeric_data() / data.select_dtypes(np.number): the
\* numeric columns.
NumericData(d) == TakeColumns(d, NumericPositions(d, 1))

\* _DataFramePlotter.hist_frame
Frame_hist_frame_layout(l, data, opts, orig, by) ==
    IF l.status # "return" THEN Raise(l.status, l.msg, orig, by)
    ELSE Out("chart", "",
             _get_mark_def([NoChart EXCEPT !.mark = "bar", !.x = S("repeat"),
                                           !.xbin = TRUE, !.y = S("count()"),
                                           !.repeat = data.cols,
                                           !.columns = l.cols, !.data = data], opts),
             orig, by)
Frame_hist_frame_numeric(data, opts, orig, by) ==
    Frame_hist_frame_layout(_get_layout(Len(data.cols), LayoutOr(opts, Given(<<-1, 2>>))),
                            data, opts, orig, by)
Frame_hist_frame_data(pre, opts, by) ==
    IF pre.err # "" THEN Raise(pre.err, "data[usecols]", pre.caller, by)
    ELSE Frame_hist_frame_numeric(NumericData(pre.data), opts, pre.caller, by)
Frame_hist_frame(self_data, opts, by) ==
    Frame_hist_frame_data(FramePreprocess(self_data, FALSE, opts.column), opts, by)

\* _DataFramePlotter.kde
Frame_kde(self_data, opts, by) ==
    kde_data(FramePreprocess(self_data, FALSE, NoCols), opts, by)

\* The str labels of the model in the order Python sorts them.
LabelOrder ==
    <<"0", "1", "C", "Col1", "X", "X, Y", "Y", "index", "level_0", "x", "y">>

\* pandas: Index(columns).difference(Index(other)): the labels of columns that
\* are not in other, sorted and without repetitions.
Difference(columns, other) ==
    LET keep(k) == /\ \E j \in 1..Len(columns) : columns[j] = S(LabelOrder[k])
                   /\ \A j \in 1..Len(other) : other[j] # S(LabelOrder[k])
        rank == SelectSeq([k \in 1..Len(LabelOrder) |-> k], keep)
    IN  [k \in 1..Len(rank) |-> S(LabelOrder[rank[k]])]

InSeq(e, q) == \E k \in 1..Len(q) : q[k] = e
AllStr(labels) == \A k \in 1..Len(labels) : labels[k].t = "str"

RECURSIVE JoinLabels(_, _)
\* sep.join(labels)
JoinLabels(labels, sep) ==
    IF labels = <<>> THEN ""
    ELSE IF Len(labels) = 1 THEN labels[1].s
    ELSE labels[1].s \o sep \o JoinLabels(Tail(labels), sep)

ColumnOf(d, lab) == d.cells[CHOOSE j \in 1..Len(d.cols) : d.cols[j] = lab]

RECURSIVE JoinCells(_, _, _)
\* ', '.join(row) for row i of the columns labelled labels.
JoinCells(d, labels, i) ==
    IF Len(labels) = 1 THEN ColumnOf(d, labels[1])[i].s
    ELSE ColumnOf(d, labels[1])[i].s \o <<",", " ">> \o JoinCells(d, Tail(labels), i)

\* pandas: data[lab].nunique()
NUnique(cells) == Cardinality({cells[i] : i \in 1..Len(cells)})

\* data[lab] = cells: assigns to the object data refers to; the column is
\* replaced when lab is a column already and appended otherwise.
PutColumn(d, lab, cells) ==
    IF HasColumn(d, lab)
    THEN [d EXCEPT !.cells[CHOOSE j \in 1..Len(d.cols) : d.cols[j] = lab] = cells]
    ELSE [d EXCEPT !.cols = Append(d.cols, lab), !.cells = Append(d.cells, cells)]

AssignColumn(ref, orig, lab, cells) ==
    [ref |-> Ref(PutColumn(ref.obj, lab, cells), ref.own),
     caller |-> IF ref.own THEN orig ELSE PutColumn(orig, lab, cells)]

\* by = by.pop(): removes the last element of the caller's list.
Pop(by) == SubSeq(by, 1, Len(by) - 1)

\* The chart of _DataFramePlotter.box, from the x column on.
BoxChart(data, columns, x_column, x_title, opts, faceted, n_columns) ==
    LET chart == [NoChart EXCEPT !.mark = "boxplot", !.fold = columns,
                                 !.foldas = <<"Column", "Value">>,
                                 !.markcolor = IF opts.color.t = "str" THEN opts.color ELSE U,
                                 !.x = x_column, !.y = S("Value"),
                                 !.tooltip = <<x_column, S("Value")>>,
                                 !.data = data]
        swapped == IF opts.vert THEN chart ELSE SwapXY(chart)
    IN  IF faceted
        THEN [swapped EXCEPT !.facet = S("Column"), !.columns = n_columns, !.title = x_title]
        ELSE swapped

\* _DataFramePlotter.box; by is the content of the caller's list object.
Frame_box_data(pre, opts, by) ==
    LET data == pre.data
        isList == opts.bylist
        isNone == ~isList /\ Get(opts.by) = N
        \* list(by): the elements of a list, the characters of a str (the by
        \* names of the model have one character).
        listBy == IF isList THEN by ELSE <<opts.by>>
        columns == IF opts.column.given THEN opts.column.v
                   ELSE IF isNone THEN NumericData(data).cols
                   ELSE Difference(NumericData(data).cols, listBy)
        lay == LayoutOr(opts, NoLayout)
    IN  IF isNone
        THEN LET l == _get_layout(1, lay)
             IN  IF l.status # "return" THEN Raise(l.status, l.msg, pre.caller, by)
                 ELSE Out("chart", "",
                          BoxChart(data, columns, S("Column"), <<>>, opts, FALSE, l.cols),
                          pre.caller, by)
        ELSE IF isList /\ 1 < Len(by)
        THEN LET by_identifier == S(JoinLabels(by, ", "))
                 by_column == IF ~InSeq(by_identifier, columns) THEN by_identifier
                              ELSE S(JoinLabels(columns, ""))
                 cells == [i \in 1..NRows(data) |->
                              VS(<<"(">> \o JoinCells(data, by, i) \o <<")">>)]
                 a == AssignColumn(Ref(data, pre.own), pre.caller, by_column, cells)
                 l == _get_layout(NUnique(cells), lay)
             IN  IF ~AllStr(by)
                 THEN Raise("TypeError", "sequence item: expected str instance", pre.caller, by)
                 ELSE IF InSeq(by_identifier, columns) /\ ~AllStr(columns)
                 THEN Raise("TypeError", "sequence item: expected str instance", pre.caller, by)
                 ELSE IF \E k \in 1..Len(by) : ~HasColumn(data, by[k])
                 THEN Raise("KeyError", "data[by]", pre.caller, by)
                 ELSE IF \E k \in 1..Len(by) : \E i \in 1..NRows(data) :
                            ColumnOf(data, by[k])[i].t # "str"
                 THEN Raise("TypeError", "sequence item: expected str instance", pre.caller, by)
                 ELSE IF l.status # "return" THEN Raise(l.status, l.msg, a.caller, by)
                 ELSE Out("chart", "",
                          BoxChart(a.ref.obj, columns, by_column, by, opts, TRUE, l.cols),
                          a.caller, by)
        ELSE IF isList /\ Len(by) = 0
        THEN Raise("IndexError", "pop from empty list", pre.caller, by)
        ELSE LET popped == IF isList THEN by[Len(by)] ELSE opts.by
                 left == IF isList THEN Pop(by) ELSE by
                 l == _get_layout(NUnique(ColumnOf(data, popped)), lay)
             IN  IF ~HasColumn(data, popped) THEN Raise("KeyError", "data[by]", pre.caller, left)
                 ELSE IF l.status # "return" THEN Raise(l.status, l.msg, pre.caller, left)
                 ELSE Out("chart", "",
                          BoxChart(data, columns, popped, <<popped>>, opts, TRUE, l.cols),
                          pre.caller, left)
Frame_box(self_data, opts, by) ==
    Frame_box_data(FramePreprocess(self_data, FALSE, NoCols), opts, by)
\* _DataFramePlotter.hexbin, with the default gridsize; the rows of the
\* model's tables fall into bins of their own, where the reduced value of C
\* is the row's own.
Frame_hexbin_data(self_data, pre, opts, by) ==
    LET data == pre.data
        x == opts.x
        y == opts.y
        C == opts.C
        numeric(lab) == IsNumeric(data, CHOOSE j \in 1..Len(data.cols) : data.cols[j] = lab)
        color_shorthand == IF C # x /\ C # y THEN C ELSE S("reduced_" \o _valid_column(C).s)
        a == AssignColumn(Ref(data, pre.own), pre.caller, color_shorthand, ColumnOf(data, C))
        chart == [NoChart EXCEPT !.mark = "rect", !.x = x, !.y = y,
                                 !.xbin = TRUE, !.ybin = TRUE,
                                 !.markcolor = opts.color]
    IN  IF x = U \/ y = U
        THEN Raise("TypeError", "hexbin() missing required positional argument",
                   self_data, by)
        ELSE IF ~HasColumn(data, x) \/ ~HasColumn(data, y)
        THEN Raise("KeyError", "data[x]", pre.caller, by)
        ELSE IF ~numeric(x) \/ ~numeric(y)
        THEN Raise("TypeError", "unsupported operand type(s) for -", pre.caller, by)
        ELSE IF Get(C) = N
        THEN Out("chart", "",
                 [chart EXCEPT !.color = x, !.tooltip = <<x, y, x>>, !.data = data],
                 pre.caller, by)
        ELSE IF ~HasColumn(data, C) THEN Raise("KeyError", "groupby()[C]", pre.caller, by)
        ELSE IF ~numeric(C)
        THEN Raise("TypeError", "could not reduce", pre.caller, by)
        ELSE Out("chart", "",
                 [chart EXCEPT !.color = color_shorthand,
                               !.tooltip = <<x, y, color_shorthand>>,
                               !.data = a.ref.obj],
                 a.caller, by)

Frame_hexbin(self_data, opts, by) ==
    Frame_hexbin_data(self_data, FramePreprocess(self_data, FALSE, NoCols), opts, by)

(***************************************************************************)
(* plot and _PandasPlotter.create                                          *)
(***************************************************************************)
SeriesKinds ==
    {"line", "bar", "barh", "area", "scatter", "hist", "hist_series", "box", "kde"}
FrameKinds ==
    {"line", "area", "bar", "barh", "scatter", "hist", "hist_frame", "box", "kde", "hexbin"}
\* The other attributes of a plotter.
PrivateAttrs == {"_data", "_preprocess_data", "_xy", "_kde", "_get_mark_def", "create"}

PlotKinds(type) ==
    IF type = "Series" THEN SeriesKinds
    ELSE IF type = "DataFrame" THEN FrameKinds
    ELSE {}

\* hasattr(plotter, kind)
hasattr(type, kind) == kind \in PlotKinds(type) \cup PrivateAttrs

\* plotfunc(**kwargs) for an attribute that is not a plot kind.
CallPrivate(self_data, kind, opts, by) ==
    IF kind = "_data"
    THEN Raise("TypeError", "object is not callable", self_data, by)
    ELSE IF kind = "_preprocess_data"
    THEN IF opts # NoOpts
         THEN Raise("TypeError", "got an unexpected keyword argument", self_data, by)
         ELSE LET pre == IF self_data.type = "Series"
                         THEN SeriesPreprocess(self_data, TRUE)
                         ELSE FramePreprocess(self_data, TRUE, NoCols)
              IN  IF pre.err # "" THEN Raise(pre.err, "reset_index", pre.caller, by)
                  ELSE Out("value", "", [NoChart EXCEPT !.data = pre.data], pre.caller, by)
    ELSE Raise("TypeError", "missing required positional argument", self_data, by)

CallSeries(self_data, kind, opts, by) ==
    CASE kind = "line" -> Series_line(self_data, opts, by)
      [] kind = "bar" -> Series_bar(self_data, opts, by)
      [] kind = "barh" -> Series_barh(self_data, opts, by)
      [] kind = "area" -> Series_area(self_data, opts, by)
      [] kind = "scatter" -> Series_scatter(self_data, opts, by)
      [] kind = "hist" -> Series_hist(self_data, opts, by)
      [] kind = "hist_series" -> Series_hist_series(self_data, opts, by)
      [] kind = "box" -> Series_box(self_data, opts, by)
      [] kind = "kde" -> Series_kde(self_data, opts, by)
      [] OTHER -> CallPrivate(self_data, kind, opts, by)

CallFrame(self_data, kind, opts, by, seed) ==
    CASE kind = "line" -> Frame_line(self_data, opts, by)
      [] kind = "area" -> Frame_area(self_data, opts, by)
      [] kind = "bar" -> Frame_bar(self_data, opts, by)
      [] kind = "barh" -> Frame_barh(self_data, opts, by)
      [] kind = "scatter" -> Frame_scatter(self_data, opts, by, seed)
      [] kind = "hist" -> Frame_hist(self_data, opts, by)
      [] kind = "hist_frame" -> Frame_hist_frame(self_data, opts, by)
      [] kind = "box" -> Frame_box(self_data, opts, by)
      [] kind = "kde" -> Frame_kde(self_data, opts, by)
      [] kind = "hexbin" -> Frame_hexbin(self_data, opts, by)
      [] OTHER -> CallPrivate(self_data, kind, opts, by)

Invoked(kind, r) == [invoked |-> kind, r |-> r]

\* plot(data, kind, **kwargs)
plot(data, kind, opts, by, seed) ==
    IF data.type \notin {"Series", "DataFrame"}
    THEN Invoked("", Raise("NotImplementedError", "data of type", data, by))
    ELSE IF ~hasattr(data.type, kind)
    THEN Invoked("", Raise("NotImplementedError", "kind for data of type", data, by))
    ELSE IF data.type = "Series"
    THEN Invoked(kind, CallSeries(data, kind, opts, by))
    ELSE Invoked(kind, CallFrame(data, kind, opts, by, seed))

(***************************************************************************)
(* The inputs of the normalizers: Series and DataFrames of Rows rows with  *)
(* None, str and int labels, with unnamed and named flat indexes, and with *)
(* two-level MultiIndexes whose rows alternate between two tuples.         *)
(***************************************************************************)
Rows == 2

NumCells(j) == [i \in 1..Rows |-> VI(i + j)]

LevelVals ==
    {VI(1), VS(<<"1">>), VS(<<"a">>), VS(<<"'">>), VS(<<"a", "\"">>), VS(<<"'", "\"">>)}
LevelTuples == {<<a, b>> : a \in LevelVals, b \in LevelVals}

FlatIndexes ==
    {[iname |-> nm, multi |-> FALSE, keys |-> RangeKeys(Rows)] :
        nm \in {N, S("idx"), I(0), S("x")}}
MultiIndexes ==
    {[iname |-> N, multi |-> TRUE,
      keys |-> [i \in 1..Rows |-> IF i % 2 = 1 THEN k1 ELSE k2]] :
        k1 \in LevelTuples, k2 \in LevelTuples}

SeriesNames == {N, S("data_name"), S("index"), I(0)}
FrameColumns ==
    {<<S("x"), S("y")>>, <<I(0), I(1)>>, <<I(0), S("0")>>,
     <<S("index"), S("x")>>, <<S("index"), S("level_0")>>}

MakeSeries(nm, ix) ==
    Table("Series", <<nm>>, <<NumCells(0)>>, ix.iname, ix.multi, ix.keys)
MakeFrame(cols, ix) ==
    Table("DataFrame", cols, [j \in 1..Len(cols) |-> NumCells(j - 1)],
          ix.iname, ix.multi, ix.keys)

NormInputs ==
    {MakeSeries(nm, ix) : nm \in SeriesNames, ix \in FlatIndexes}
    \cup {MakeFrame(cols, ix) : cols \in FrameColumns, ix \in FlatIndexes}
    \cup {MakeSeries(nm, ix) : nm \in {N, S("data_name")}, ix \in MultiIndexes}
    \cup {MakeFrame(<<S("x"), S("y")>>, ix) : ix \in MultiIndexes}

UseCols ==
    {NoCols, Cols(<<S("x")>>), Cols(<<S("y"), S("x")>>), Cols(<<I(0)>>),
     Cols(<<S("0")>>), Cols(<<S("z")>>)}

NormCall(with_index, usecols) == [with_index |-> with_index, usecols |-> usecols]
NoWork == [status |-> "none", data |-> NoTable]
WorkOf(r) ==
    IF r.err = "" THEN [status |-> "return", data |-> r.data]
    ELSE [status |-> r.err, data |-> NoTable]

NormIdle ==
    /\ caller = NoTable
    /\ snapshot = NoTable
    /\ ncall = NormCall(FALSE, NoCols)
    /\ work = NoWork

NoCall == [kind |-> "", opts |-> NoOpts]
NoOut == Invoked("", Out("none", "", NoChart, NoTable, <<>>))

PlotIdle ==
    /\ byobj = <<>>
    /\ bysnap = <<>>
    /\ hashseed = TRUE
    /\ pc = "idle"
    /\ pcall = NoCall
    /\ out = NoOut

InitNorm ==
    /\ LayoutIdle
    /\ PlotIdle
    /\ caller \in NormInputs
    /\ snapshot = caller
    /\ ncall = NormCall(FALSE, NoCols)
    /\ work = NoWork

NormalizeSeries(with_index) ==
    /\ caller.type = "Series"
    /\ LET r == SeriesPreprocess(caller, with_index)
       IN  /\ work' = WorkOf(r)
           /\ caller' = r.caller
    /\ ncall' = NormCall(with_index, NoCols)
    /\ UNCHANGED <<snapshot, lvars, pvars>>

NormalizeFrame(with_index, usecols) ==
    /\ caller.type = "DataFrame"
    /\ LET r == FramePreprocess(caller, with_index, usecols)
       IN  /\ work' = WorkOf(r)
           /\ caller' = r.caller
    /\ ncall' = NormCall(with_index, usecols)
    /\ UNCHANGED <<snapshot, lvars, pvars>>

NextNorm ==
    \/ \E with_index \in BOOLEAN : NormalizeSeries(with_index)
    \/ \E with_index \in BOOLEAN, usecols \in UseCols :
          NormalizeFrame(with_index, usecols)

SpecNorm == InitNorm /\ [][NextNorm]_vars

(***************************************************************************)
(* Calls of plot.  The caller holds one data object and one list object    *)
(* that it passes as by; each call runs to its end, and the caller then    *)
(* takes the outcome and is free to call again.                            *)
(***************************************************************************)
StrCells(a, b) == [i \in 1..Rows |-> IF i % 2 = 1 THEN VS(<<a>>) ELSE VS(<<b>>)]
RangeIndex == [iname |-> N, multi |-> FALSE, keys |-> RangeKeys(Rows)]
ProductIndex ==
    [iname |-> N, multi |-> TRUE,
     keys |-> [i \in 1..Rows |-> <<VS(<<"a">>), VI(i)>>]]

\* A DataFrame with numeric columns Col1, C and x and str columns X and Y.
GroupedFrame ==
    Table("DataFrame", <<S("Col1"), S("C"), S("x"), S("X"), S("Y")>>,
          <<NumCells(0), NumCells(1), NumCells(2), StrCells("A", "A"), StrCells("A", "B")>>,
          N, FALSE, RangeKeys(Rows))

\* A DataFrame that has a str column labelled "X, Y" beside X and Y.
CollidingFrame ==
    Table("DataFrame", <<S("Col1"), S("X"), S("Y"), S("X, Y")>>,
          <<NumCells(0), StrCells("A", "A"), StrCells("A", "B"), StrCells("k", "k")>>,
          N, FALSE, RangeKeys(Rows))

\* A DataFrame of LongRows rows.
LongRows == 13
LongFrame ==
    Table("DataFrame", <<S("x"), S("y")>>,
          [j \in 1..2 |-> [i \in 1..LongRows |-> VI(i + j - 1)]],
          N, FALSE, RangeKeys(LongRows))

OtherData == Table("list", <<>>, <<>>, N, FALSE, <<>>)

PlotInputs ==
    {MakeSeries(S("data_name"), RangeIndex), MakeSeries(N, ProductIndex),
     MakeFrame(<<S("x"), S("y")>>, RangeIndex),
     MakeFrame(<<S("x"), S("y")>>, ProductIndex),
     MakeFrame(<<I(0), I(1)>>, RangeIndex),
     GroupedFrame, CollidingFrame, LongFrame, OtherData}

ByLists == {<<S("X")>>, <<S("X"), S("Y")>>}

\* Values of bw_method and ind that are not labels: the float n / 10, a
\* callable, a numpy array and a list of n elements.
Float(n) == [t |-> "float", n |-> n, s |-> ""]
Callable(s, n) == [t |-> "callable", n |-> n, s |-> s]
Array(type, n) == [t |-> type, n |-> n, s |-> ""]

KindNames == SeriesKinds \cup FrameKinds \cup PrivateAttrs \cup {"pie"}

LayoutOpts ==
    {NoLayoutOpt, LayoutOpt(NoLayout), LayoutOpt(Given(<<1, 1>>)),
     LayoutOpt(Given(<<2, -1>>)), LayoutOpt(Given(<<-1, 0>>))}

OptionSets ==
    {[NoOpts EXCEPT !.x = x, !.y = y, !.c = c, !.color = color] :
        x \in {U, S("x"), I(0), S("zz")}, y \in {U, S("y")},
        c \in {U, S("y")}, color \in {U, S("red")}}
    \cup {[NoOpts EXCEPT !.x = S("x"), !.y = I(1), !.s = S("x")],
          [NoOpts EXCEPT !.x = N, !.y = S("y")]}
    \cup {[NoOpts EXCEPT !.x = x, !.y = S("Col1"), !.C = C] :
            x \in {S("x"), S("X")}, C \in {S("C"), S("x"), S("zz")}}
    \cup {[NoOpts EXCEPT !.subplots = TRUE, !.layout = l, !.orientation = o] :
            l \in LayoutOpts, o \in {"vertical", "horizontal"}}
    \cup {[NoOpts EXCEPT !.orientation = o] : o \in {"horizontal", "diagonal"}}
    \cup {[NoOpts EXCEPT !.by = b, !.column = col, !.vert = v] :
            b \in {S("X"), S("Z")},
            col \in {NoCols, Cols(<<S("X, Y"), S("Col1")>>)}, v \in BOOLEAN}
    \cup {[NoOpts EXCEPT !.bylist = TRUE, !.column = col, !.layout = l] :
            col \in {NoCols, Cols(<<S("Col1")>>), Cols(<<S("X, Y"), S("Col1")>>)},
            l \in {NoLayoutOpt, LayoutOpt(Given(<<1, 1>>))}}
    \cup {[NoOpts EXCEPT !.column = col] : col \in UseCols}
    \cup {[NoOpts EXCEPT !.bw_method = b] :
            b \in {N, S("scott"), S("silverman"), Float(3), Callable("const", 3),
                   Callable("shape", 0)}}
    \cup {[NoOpts EXCEPT !.ind = i] : i \in {N, I(500), Array("ndarray", 5), Array("list", 3)}}
    \cup {[NoOpts EXCEPT !.bw_method = Callable("const", 3), !.ind = Array("ndarray", 5)]}
    \cup {[NoOpts EXCEPT !.bins = b, !.orientation = o] :
            b \in {N, I(10)}, o \in {"vertical", "horizontal", "diagonal"}}
    \cup {[NoOpts EXCEPT !.stacked = st, !.subplots = sub, !.y = y] :
            st \in {N, B(TRUE), B(FALSE)}, sub \in BOOLEAN, y \in {U, S("y")}}

InitPlot ==
    /\ LayoutIdle
    /\ caller \in PlotInputs
    /\ snapshot = caller
    /\ ncall = NormCall(FALSE, NoCols)
    /\ work = NoWork
    /\ byobj \in ByLists
    /\ bysnap = byobj
    /\ hashseed \in BOOLEAN
    /\ pc = "idle"
    /\ pcall = NoCall
    /\ out = NoOut

Plot(kind, opts) ==
    /\ pc = "idle"
    /\ LET res == plot(caller, kind, opts, byobj, hashseed)
       IN  /\ out' = res
           /\ caller' = res.r.caller
           /\ byobj' = res.r.byobj
    /\ pcall' = [kind |-> kind, opts |-> opts]
    /\ pc' = "done"
    /\ UNCHANGED <<snapshot, bysnap, hashseed, ncall, work, lvars>>

Return ==
    /\ pc = "done"
    /\ pc' = "idle"
    /\ pcall' = NoCall
    /\ out' = NoOut
    /\ UNCHANGED <<caller, snapshot, byobj, bysnap, hashseed, ncall, work, lvars>>

NextPlot ==
    \/ \E kind \in KindNames, opts \in OptionSets : Plot(kind, opts)
    \/ Return

SpecPlot == InitPlot /\ [][NextPlot]_vars

(***************************************************************************)
(* scatter_matrix(df, color, alpha, tooltip), called with keyword options. *)
(* In the chart, repeat is the row repeat and repeatcol the column repeat; *)
(* color is the field of a data-driven color channel, colorvalue a         *)
(* constant color, scheme the scheme of the color scale.                   *)
(***************************************************************************)
\* The chart, from alt.Chart(dfc) on; cols and the default tooltip are taken
\* from the str labels of df before a color column is added.
scatter_matrix_chart(df, dfc, color, colorvalue, opts, by) ==
    Out("chart", "",
        [NoChart EXCEPT !.mark = "circle", !.x = S("column"), !.y = S("row"),
                        !.opacity = IF opts.alpha = U THEN Float(10) ELSE opts.alpha,
                        !.tooltip = IF opts.tooltip = <<>> THEN Stringified(df).cols
                                    ELSE opts.tooltip,
                        !.color = color, !.colorvalue = colorvalue,
                        !.repeat = NumericData(Stringified(df)).cols,
                        !.repeatcol = Reversed(NumericData(Stringified(df)).cols),
                        !.data = dfc],
        df, by)

scatter_matrix(df, opts, by) ==
    IF opts.colormap # U
    THEN Raise("TypeError", "scatter_matrix() got an unexpected keyword argument 'colormap'",
               df, by)
    ELSE IF df.type # "DataFrame"
    THEN Raise("AttributeError", "object has no attribute", df, by)
    ELSE IF Get(opts.color) = N
    THEN scatter_matrix_chart(df, df, U, U, opts, by)
    ELSE IF opts.color.t = "str"
    THEN IF HasColumn(Stringified(df), opts.color)
         THEN scatter_matrix_chart(df, df, opts.color, U, opts, by)
         ELSE scatter_matrix_chart(df, df, U, opts.color, opts, by)
    ELSE IF opts.color.t = "list" /\ opts.color.n = NRows(df)
    THEN scatter_matrix_chart(df,
                              PutColumn(df, S("color"), [i \in 1..NRows(df) |-> VI(i)]),
                              S("color"), U, opts, by)
    ELSE Raise("ValueError", "color", df, by)

MatrixOptions ==
    {[NoOpts EXCEPT !.color = color, !.alpha = alpha, !.tooltip = tooltip,
                    !.colormap = colormap] :
        color \in {U, N, S("x"), S("0"), S("z"), S("red"), I(5),
                   Array("list", Rows), Array("list", Rows + 1)},
        alpha \in {U, Float(2)},
        tooltip \in {<<>>, <<S("x"), S("y")>>},
        colormap \in {U, S("viridis")}}

ScatterMatrix(opts) ==
    /\ pc = "idle"
    /\ LET r == scatter_matrix(caller, opts, byobj)
       IN  /\ out' = Invoked("scatter_matrix", r)
           /\ caller' = r.caller
           /\ byobj' = r.byobj
    /\ pcall' = [kind |-> "scatter_matrix", opts |-> opts]
    /\ pc' = "done"
    /\ UNCHANGED <<snapshot, bysnap, hashseed, ncall, work, lvars>>

NextMatrix ==
    \/ \E opts \in MatrixOptions : ScatterMatrix(opts)
    \/ Return

SpecMatrix == InitPlot /\ [][NextMatrix]_vars

(***************************************************************************)
(* The layout solver called with any panel count and any layout.           *)
(***************************************************************************)
InitLayout ==
    /\ LayoutIdle
    /\ NormIdle
    /\ PlotIdle

GetLayout(p, lay) ==
    /\ panels' = p
    /\ layout' = lay
    /\ lret' = _get_layout(p, lay)
    /\ UNCHANGED <<nvars, pvars>>

NextLayout == \E p \in PanelCounts, lay \in LayoutArgs : GetLayout(p, lay)

SpecLayout == InitLayout /\ [][NextLayout]_vars

(***************************************************************************)
(* Claims about the layout solver.                                         *)
(***************************************************************************)
\* k is the ceiling of p / d, for d > 0: the least k with k * d >= p.
IsCeil(k, p, d) == k * d >= p /\ (k - 1) * d < p

LayoutCalled == lret.status # "none"
TwoGiven == layout.given /\ Len(layout.v) = 2

\* What C1 and its amendment say of a call whose layout is (r, c).
InferredAsStated(r, c) ==
    /\ lret.status = "return"
    /\ lret.rows * lret.cols >= panels
    /\ r < 0 => lret.cols = c /\ IsCeil(lret.rows, panels, c)
    /\ c < 0 => lret.rows = r /\ IsCeil(lret.cols, panels, r)

Resolves(r, c) == (r >= 0 /\ c >= 0) \/ (r < 0 /\ c > 0) \/ (c < 0 /\ r > 0)
ResolvedRows(p, r, c) ==
    IF r < 0 THEN CHOOSE k \in 0..p : IsCeil(k, p, c) ELSE r
ResolvedCols(p, r, c) ==
    IF c < 0 THEN CHOOSE k \in 0..p : IsCeil(k, p, r) ELSE c

\* C2: _get_layout raises the configuration error (ValueError), and returns
\* nothing, when the layout does not have two elements, when both entries
\* are negative, and when the resolved grid holds fewer than panels cells.
C2_LayoutErrors ==
    LayoutCalled =>
        /\ (layout.given /\ Len(layout.v) # 2) => lret.status = "ValueError"
        /\ TwoGiven =>
              LET r == layout.v[1]
                  c == layout.v[2]
              IN  /\ (r < 0 /\ c < 0) => lret.status = "ValueError"
                  /\ ( /\ Resolves(r, c)
                       /\ ResolvedRows(panels, r, c) * ResolvedCols(panels, r, c) < panels )
                        => lret.status = "ValueError"

C2_Witness ==
    /\ panels = 6
    /\ layout = Given(<<2, 2>>)
    /\ lret.status = "ValueError"

\* C3 as stated: whenever _get_layout returns (rows, cols), both are
\* positive and rows * cols >= panels.
C3_Original ==
    lret.status = "return" =>
        /\ lret.rows > 0
        /\ lret.cols > 0
        /\ lret.rows * lret.cols >= panels

\* C3 as amended: whenever _get_layout returns (rows, cols), neither is
\* negative and rows * cols >= panels, and both are positive when the panel
\* count is at least 1 (for 0 panels it returns grids such as (0, 2)).
C3_ReturnedLayout ==
    lret.status = "return" =>
        /\ lret.rows >= 0
        /\ lret.cols >= 0
        /\ lret.rows * lret.cols >= panels
        /\ panels >= 1 => (lret.rows > 0 /\ lret.cols > 0)

C3_Witness ==
    /\ panels = 3
    /\ ~layout.given
    /\ lret = LReturn(<<2, 2>>)

\* C22: called with an int panel count and a layout of two ints, _get_layout
\* returns a layout or raises ValueError, and no other error.
C22_LayoutTotal ==
    (LayoutCalled /\ TwoGiven) => lret.status \in {"return", "ValueError"}

(***************************************************************************)
(* Claims about plot.                                                      *)
(***************************************************************************)
Called == pc = "done"

\* C4: plot raises the unsupported-type error (NotImplementedError) for data
\* that is neither a Series nor a DataFrame, and the unsupported-operation
\* error (NotImplementedError naming the kind and the type) for every kind
\* that is not a plot kind of the data's type, a name of a non-plot
\* attribute of the plotter included; in both cases nothing is invoked.
C4_DispatcherErrors ==
    Called =>
        /\ snapshot.type \notin {"Series", "DataFrame"} =>
              /\ out.r.status = "NotImplementedError"
              /\ out.r.msg = "data of type"
              /\ out.invoked = ""
        /\ ( /\ snapshot.type \in {"Series", "DataFrame"}
             /\ pcall.kind \notin PlotKinds(snapshot.type) ) =>
              /\ out.r.status = "NotImplementedError"
              /\ out.r.msg = "kind for data of type"
              /\ out.invoked = ""

\* C5: kind "scatter" on a Series raises the ValueError that scatter needs a
\* DataFrame, whatever the options, and returns no chart.
C5_SeriesScatter ==
    (Called /\ snapshot.type = "Series" /\ pcall.kind = "scatter") =>
        /\ out.r.status = "ValueError"
        /\ out.r.msg = "kind='scatter' can only be used for DataFrames."
        /\ out.r.chart = NoChart

C5_Witness ==
    /\ Called
    /\ snapshot.type = "Series"
    /\ pcall.kind = "scatter"
    /\ pcall.opts.x = S("x") /\ pcall.opts.y = S("y") /\ pcall.opts.c = S("y")
    /\ pcall.opts.color = S("red")
    /\ out.r.status = "ValueError"

\* C6: the caller's Series or DataFrame has the column labels, the values
\* and the index it was constructed with, before and after every call,
\* whatever the kind and the options and whether the call returns or raises.
C6_CallerUnchanged == caller = snapshot

C6_Witness ==
    /\ Called
    /\ pcall.kind = "box" /\ pcall.opts.bylist /\ bysnap = <<S("X"), S("Y")>>
    /\ out.r.status = "chart"
    /\ HasColumn(out.r.chart.data, S("X, Y"))
    /\ ~HasColumn(caller, S("X, Y"))
    /\ caller = snapshot

\* C7: the outcome of a call, the chart or the error, is the outcome of the
\* same call made first, on the data and the by list as they were
\* constructed: it does not depend on the calls made before it.
C7_Stateless ==
    Called =>
        LET first == plot(snapshot, pcall.kind, pcall.opts, bysnap, hashseed)
        IN  /\ out.r.status = first.r.status
            /\ out.r.msg = first.r.msg
            /\ out.r.chart = first.r.chart

XYKinds == {"line", "bar", "barh", "area"}
XYChart ==
    /\ Called
    /\ snapshot.type = "DataFrame"
    /\ pcall.kind \in XYKinds
    /\ out.r.status = "chart"

\* C11: for line, bar, barh and area on a DataFrame the folded columns hold
\* neither the materialized index column nor the column used as x: with y
\* not given they are all the other columns, with y given they are [y].
C11_FoldExcludesX ==
    XYChart =>
        LET d == out.r.chart.data
            index == d.cols[1]
            x == IF Get(pcall.opts.x) = N THEN index ELSE _valid_column(pcall.opts.x)
            fold == out.r.chart.fold
        IN  /\ ~InSeq(index, fold)
            /\ ~InSeq(x, fold)
            /\ IF Get(pcall.opts.y) = N
               THEN fold = SelectSeq(d.cols, LAMBDA c : c # x /\ c # index)
               ELSE fold = <<_valid_column(pcall.opts.y)>>

\* A bar call on a DataFrame with default options that returned a chart.
DefaultBar ==
    /\ Called
    /\ snapshot.type = "DataFrame"
    /\ pcall.kind = "bar"
    /\ pcall.opts = NoOpts
    /\ out.r.status = "chart"

\* C12 as stated: bar with default options on a DataFrame of at most 12 rows
\* gives a chart with a facet on the index column; on more than 12 rows it
\* gives a single chart without facet.
C12_Original ==
    DefaultBar =>
        IF NRows(snapshot) <= 12
        THEN out.r.chart.facet = out.r.chart.data.cols[1]
        ELSE out.r.chart.facet = U

\* C12 as amended: bar with default options on a DataFrame gives, whatever
\* the number of rows, a single bar chart without facet: the index column on
\* x, the folded value on y, the folded column as color, and all columns but
\* the index folded.
C12_BarUnfaceted ==
    DefaultBar =>
        LET chart == out.r.chart
        IN  /\ chart.mark = "bar" /\ chart.orient = "vertical"
            /\ chart.facet = U /\ chart.columns = 0
            /\ chart.x = chart.data.cols[1] /\ chart.y = S("value")
            /\ chart.color = S("column")
            /\ chart.fold = Tail(chart.data.cols)
            /\ NRows(chart.data) = NRows(snapshot)

C12_Witness ==
    /\ DefaultBar
    /\ NRows(snapshot) = Rows
    /\ snapshot.cols = <<S("x"), S("y")>>
    /\ out.r.chart.facet = U
    /\ out.r.chart.fold = <<S("x"), S("y")>>

\* C13: line, bar, barh and area on a DataFrame give a chart with a facet on
\* the folded column exactly when subplots is true; its columns directive is
\* then the column count _get_layout resolves from the number of folded
\* columns and the layout option (default (-1, 1), one column), and the call
\* fails when _get_layout rejects the layout.
C13_SubplotsFacet ==
    ( /\ Called
      /\ snapshot.type = "DataFrame"
      /\ pcall.kind \in XYKinds
      /\ out.r.status # "AssertionError" ) =>
        LET opts == pcall.opts
            n == IF Get(opts.y) = N THEN Len(snapshot.cols) ELSE 1
            l == _get_layout(n, IF opts.layout.set THEN opts.layout.arg
                                ELSE Given(<<-1, 1>>))
        IN  IF ~opts.subplots
            THEN /\ out.r.status = "chart"
                 /\ out.r.chart.facet = U
                 /\ out.r.chart.columns = 0
            ELSE /\ l.status = "return" =>
                       /\ out.r.status = "chart"
                       /\ out.r.chart.facet = S("column")
                       /\ out.r.chart.columns = l.cols
                       /\ Len(out.r.chart.fold) = n
                 /\ l.status # "return" =>
                       /\ out.r.status = l.status
                       /\ out.r.chart = NoChart
                 /\ ~opts.layout.set => out.r.chart.columns = 1

C13_Witness ==
    /\ Called
    /\ snapshot.cols = <<S("x"), S("y")>>
    /\ pcall.kind = "area"
    /\ pcall.opts.subplots
    /\ pcall.opts.layout = LayoutOpt(NoLayout)
    /\ out.r.status = "chart"
    /\ out.r.chart.facet = S("column")
    /\ out.r.chart.columns = 2

\* The relation of C14 between the outcome of barh and the outcome of bar on
\* the same input and options.
BarhOfBar(barh, bar) ==
    IF bar.status = "chart"
    THEN /\ barh.status = "chart"
         /\ barh.chart = [bar.chart EXCEPT !.x = bar.chart.y, !.y = bar.chart.x,
                                            !.orient = "horizontal"]
         /\ barh.chart.y = barh.chart.data.cols[1] \/ barh.chart.y = Get(pcall.opts.x)
                                                   \/ barh.chart.y = _valid_column(pcall.opts.x)
         /\ barh.chart.x # barh.chart.y
         /\ barh.chart.color = bar.chart.color
         /\ barh.chart.fold = bar.chart.fold
         /\ barh.chart.tooltip = bar.chart.tooltip
    ELSE barh.status = bar.status /\ barh.msg = bar.msg /\ barh.chart = NoChart

\* C14: on a Series or a DataFrame, barh gives the chart of bar on the same
\* input and options with the x and y channels exchanged and the mark orient
\* horizontal (y is bar's x, the index field; x is bar's y, the value field;
\* color, fold and tooltip are the same), and fails as bar fails.
C14_BarhIsBarSwapped ==
    (Called /\ pcall.kind = "barh" /\ snapshot.type \in {"Series", "DataFrame"}) =>
        BarhOfBar(out.r, plot(snapshot, "bar", pcall.opts, bysnap, hashseed).r)

C14_Witness ==
    /\ Called
    /\ pcall.kind = "barh"
    /\ snapshot.type = "DataFrame"
    /\ snapshot.cols = <<S("x"), S("y")>>
    /\ out.r.status = "chart"
    /\ out.r.chart.orient = "horizontal"
    /\ out.r.chart.x = S("value")
    /\ out.r.chart.y = S("index")
    /\ out.r.chart.fold = <<S("x"), S("y")>>

\* C15 as stated: the stack mode of the value channel is the stacked option
\* as given, unset when the option is not passed.
C15_Original == XYChart => out.r.chart.stack = pcall.opts.stacked

\* C15: for line, bar, barh and area on a DataFrame the stack mode of the
\* value channel is the stacked option when it is passed (True, False or
\* None); when it is not passed the stack mode is False for line, bar and
\* barh and True for area.
C15_StackedPassedThrough ==
    XYChart =>
        /\ pcall.opts.stacked # U => out.r.chart.stack = pcall.opts.stacked
        /\ pcall.opts.stacked = U =>
              out.r.chart.stack = IF pcall.kind = "area" THEN B(TRUE) ELSE B(FALSE)
        /\ out.r.chart.line = (pcall.kind = "area" /\ out.r.chart.stack # B(TRUE))

C15_Witness ==
    /\ XYChart
    /\ pcall.kind = "area"
    /\ pcall.opts.stacked = U
    /\ out.r.chart.stack = B(TRUE)
    /\ out.r.chart.y = S("value")

\* The binned field of a hist chart: the column of a Series, the folded value
\* of a DataFrame.
HistField == IF snapshot.type = "Series" THEN out.r.chart.data.cols[1] ELSE S("value")

\* C16: hist on a Series or a DataFrame (hist_series included) with
\* orientation vertical bins the value field on x and counts on y, with
\* orientation horizontal bins it on y and counts on x, and with any other
\* orientation raises ValueError and builds no chart; the bin directive is
\* maxbins=n for an int bins=n and automatic when bins is None or not passed.
C16_HistOrientation ==
    (Called /\ out.invoked \in {"hist", "hist_series"}) =>
        LET o == pcall.opts.orientation
            chart == out.r.chart
        IN  /\ o \notin {"vertical", "horizontal"} =>
                /\ out.r.status = "ValueError"
                /\ out.r.msg = "orientation must be 'horizontal' or 'vertical'."
                /\ chart = NoChart
            /\ (o \in {"vertical", "horizontal"} /\ ~pcall.opts.subplots) =>
                out.r.status = "chart"
            /\ (o = "vertical" /\ out.r.status = "chart") =>
                /\ chart.x = HistField /\ chart.xbin /\ ~chart.ybin
                /\ chart.y = S("count()")
            /\ (o = "horizontal" /\ out.r.status = "chart") =>
                /\ chart.y = HistField /\ chart.ybin /\ ~chart.xbin
                /\ chart.x = S("count()")
            /\ out.r.status = "chart" =>
                /\ chart.orient = o
                /\ chart.maxbins = (IF pcall.opts.bins \in {U, N} THEN U ELSE pcall.opts.bins)

C16_Witness ==
    /\ Called
    /\ out.invoked = "hist"
    /\ snapshot.type = "Series"
    /\ pcall.opts.orientation = "horizontal"
    /\ pcall.opts.bins = I(10)
    /\ out.r.status = "chart"
    /\ out.r.chart.y = S("data_name")
    /\ out.r.chart.x = S("count()")
    /\ out.r.chart.maxbins = I(10)

KdeChart ==
    /\ Called
    /\ snapshot.type \in {"Series", "DataFrame"}
    /\ pcall.kind = "kde"
    /\ out.r.status = "chart"

\* C17: the bandwidth of a kde chart is 0 for bw_method not passed, None or
\* "scott"; (n*3/4)**(-1/5), that is (4/(3n))**(1/5), for "silverman" on n
\* rows; the number itself for a numeric bw_method; and for a callable
\* bw_method the result of its one call, made on the working table.
C17_Bandwidth ==
    KdeChart =>
        LET bw == pcall.opts.bw_method
            b == out.r.chart.bandwidth
            data == out.r.chart.data
        IN  /\ bw \in {U, N, S("scott")} => b = [num |-> 0, den |-> 1, root |-> 1]
            /\ bw = S("silverman") =>
                b = [num |-> 4, den |-> 3 * NRows(snapshot), root |-> 5]
            /\ bw.t = "float" => b = [num |-> bw.n, den |-> 10, root |-> 1]
            /\ bw.t = "callable" =>
                /\ out.r.calls = <<data>>
                /\ data.type = "DataFrame"
                /\ NRows(data) = NRows(snapshot)
                /\ b = [num |-> IF bw.s = "const" THEN bw.n ELSE Len(data.cols),
                        den |-> 10, root |-> 1]
            /\ bw.t # "callable" => out.r.calls = <<>>

C17_Witness ==
    /\ KdeChart
    /\ pcall.opts.bw_method = S("silverman")
    /\ snapshot.cols = <<S("x"), S("y")>>
    /\ NRows(snapshot) = LongRows
    /\ out.r.chart.bandwidth = [num |-> 4, den |-> 3 * LongRows, root |-> 5]

\* C18: the steps of a kde chart are ind for an int ind and 1000 for ind not
\* passed or None; every sequence ind, a list as well as a numpy array,
\* gives a UserWarning and 1000 steps, and is never passed on as the steps.
C18_IndPolicy ==
    (Called /\ snapshot.type \in {"Series", "DataFrame"} /\ pcall.kind = "kde") =>
        LET ind == pcall.opts.ind
            sequence == "UserWarning: does not support sequences for ind"
        IN  /\ out.r.status = "chart"
            /\ ind.t = "int" => out.r.chart.steps = ind /\ ~InSeq(sequence, out.r.warnings)
            /\ ind \in {U, N} =>
                out.r.chart.steps = I(1000) /\ ~InSeq(sequence, out.r.warnings)
            /\ ind.t \in {"ndarray", "list"} =>
                out.r.chart.steps = I(1000) /\ InSeq(sequence, out.r.warnings)

\* C19: in a box chart of a DataFrame grouped by a list of more than one
\* key, the label of the composite group column is not the label of a
\* column of the working table (the input with its labels stringified), so
\* the working table gains one column and keeps the others as they were.
C19_CompositeLabelFresh ==
    (/\ Called
     /\ snapshot.type = "DataFrame"
     /\ pcall.kind = "box"
     /\ pcall.opts.bylist
     /\ 1 < Len(bysnap)
     /\ out.r.status = "chart") =>
        LET by_column == IF pcall.opts.vert THEN out.r.chart.x ELSE out.r.chart.y
            working == Stringified(snapshot)
            data == out.r.chart.data
        IN  /\ ~HasColumn(working, by_column)
            /\ Len(data.cols) = Len(working.cols) + 1
            /\ \A j \in 1..Len(working.cols) :
                   data.cols[j] = working.cols[j] /\ data.cells[j] = working.cells[j]

MatrixCalled ==
    /\ Called
    /\ pcall.kind = "scatter_matrix"
    /\ snapshot.type = "DataFrame"

\* C21: scatter_matrix gives a chart without a color channel for color not
\* passed or None; a chart with a data-driven color channel on the field for
\* a str color that is a column label, scaled through the scheme colormap
\* when colormap is passed; a chart with the constant color for any other
\* str color; and no chart for a sequence color.
C21_MatrixColor ==
    MatrixCalled =>
        LET color == pcall.opts.color
            colormap == pcall.opts.colormap
            chart == out.r.chart
            column == color.t = "str" /\ HasColumn(Stringified(snapshot), color)
        IN  /\ (Get(color) = N /\ colormap = U) =>
                out.r.status = "chart" /\ chart.color = U /\ chart.colorvalue = U
            /\ column =>
                /\ out.r.status = "chart"
                /\ chart.color = color /\ chart.colorvalue = U
                /\ chart.scheme = colormap
            /\ (color.t = "str" /\ ~column /\ colormap = U) =>
                out.r.status = "chart" /\ chart.color = U /\ chart.colorvalue = color
            /\ color.t = "list" => out.r.status # "chart"

(***************************************************************************)
(* Claims about the normalizers.                                           *)
(***************************************************************************)
Normalized == work.status = "return"
AllStringLabels(d) == \A j \in 1..Len(d.cols) : d.cols[j].t = "str"

\* C8: every working table a normalizer returns has only str column labels,
\* the label of the materialized index column included.
C8_StringLabels == Normalized => AllStringLabels(work.data)

\* What C9 says of a normalized Series whose value column is to be labelled
\* unnamed when the Series has no name, and whose index column is to be
\* labelled defaultIndex when the index has no name.
SeriesColumnsAre(unnamed, defaultIndex) ==
    LET d == work.data
        nm == snapshot.cols[1]
        value == d.cols[Len(d.cols)]
    IN  /\ value = (IF nm = N THEN unnamed ELSE _valid_column(nm))
        /\ d.cells[Len(d.cols)] = snapshot.cells[1]
        /\ IF ncall.with_index
           THEN /\ Len(d.cols) = 2
                /\ snapshot.iname = N => d.cols[1] = defaultIndex
                /\ \A i \in 1..NRows(snapshot) :
                      ~snapshot.multi => d.cells[1][i] = snapshot.keys[i][1]
           ELSE Len(d.cols) = 1

\* C9 as stated: a normalized Series has its value column named "value" when
\* the Series is unnamed and by its own name otherwise, and with the index
\* materialized the index is the first column, named "index" when unnamed.
C9_Original ==
    (Normalized /\ snapshot.type = "Series") =>
        SeriesColumnsAre(S("value"), S("index"))

\* C9 as amended: the value column of an unnamed Series is named "0", and
\* the unnamed index of a Series that is itself named "index" is named
\* "level_0".
C9_SeriesColumns ==
    (Normalized /\ snapshot.type = "Series") =>
        SeriesColumnsAre(S("0"),
                         IF snapshot.cols[1] = S("index") THEN S("level_0")
                         ELSE S("index"))

C9_Witness ==
    /\ snapshot = MakeSeries(S("data_name"), [iname |-> N, multi |-> FALSE, keys |-> RangeKeys(Rows)])
    /\ ncall.with_index
    /\ Normalized
    /\ work.data.cols = <<S("index"), S("data_name")>>

\* C10: the flattening of a MultiIndex gives row i the str of its index
\* tuple, and two rows get the same key only when their tuples are equal.
C10_FlatteningInjective ==
    (Normalized /\ snapshot.multi /\ ncall.with_index) =>
        LET key == work.data.cells[1]
        IN  /\ Len(key) = NRows(snapshot)
            /\ \A i \in 1..Len(key) :
                  /\ key[i].t = "str"
                  /\ key[i] = VS(TupleStr(snapshot.keys[i]))
            /\ \A i, j \in 1..Len(key) :
                  (key[i] = key[j]) <=> (snapshot.keys[i] = snapshot.keys[j])

C10_Witness ==
    /\ snapshot.multi
    /\ snapshot.keys[1] = <<VI(1), VS(<<"a">>)>>
    /\ snapshot.keys[2] = <<VS(<<"1">>), VS(<<"a">>)>>
    /\ ncall.with_index
    /\ Normalized
    /\ work.data.cells[1][1] = VS(<<"(", "1", ",", " ", "'", "a", "'", ")">>)
    /\ work.data.cells[1][2] = VS(<<"(", "'", "1", "'", ",", " ", "'", "a", "'", ")">>)

\* lab is the label of column j of d, or the str of that label.
Names(d, lab, j) == d.cols[j] = lab \/ _valid_column(d.cols[j]) = lab

\* C20: the DataFrame normalizer called with usecols, each of them the
\* original label or the stringified label of a column of the input, does
\* not fail in the selection (KeyError), and the working table it returns
\* holds, after the index column when with_index is set, exactly the
\* requested columns in the requested order under their stringified labels.
C20_UseColsEitherLabel ==
    (/\ snapshot.type = "DataFrame"
     /\ work.status # "none"
     /\ ncall.usecols.given
     /\ \A k \in 1..Len(ncall.usecols.v) :
           \E j \in 1..Len(snapshot.cols) : Names(snapshot, ncall.usecols.v[k], j)) =>
        /\ work.status # "KeyError"
        /\ Normalized =>
           LET d == work.data
               usecols == ncall.usecols.v
               off == IF ncall.with_index THEN 1 ELSE 0
           IN  /\ Len(d.cols) = off + Len(usecols)
               /\ \A k \in 1..Len(usecols) :
                      /\ d.cols[off + k] = _valid_column(usecols[k])
                      /\ \E j \in 1..Len(snapshot.cols) :
                            /\ Names(snapshot, usecols[k], j)
                            /\ d.cells[off + k] = snapshot.cells[j]

====
